---- MODULE Spec2Model ----
(***************************************************************************)
(* Model of dynamic_and_static_dispatch.rs: the Operation trait, its two   *)
(* implementations Add and Mul, the two invokers do_the_math_dynamically   *)
(* and do_the_math_statically, and the driver main.                        *)
(*                                                                         *)
(* f64 values are modelled as IEEE-754 binary64 numbers in sign /          *)
(* odd-mantissa / exponent form (value = s * m * 2^e), with signed zeros,  *)
(* infinities and NaN.  Addition and multiplication round as binary64      *)
(* does; the operand sets are kept inside the range where the rounding     *)
(* cases are either exact or a complete absorption of the smaller operand. *)
(***************************************************************************)
EXTENDS Integers, Sequences, FiniteSets, TLC

(***************************************************************************)
(* Bounds of the model.                                                    *)
(***************************************************************************)
\* integer operands range over -MaxInt .. MaxInt
MaxInt == 2
\* number of invoker calls a client other than main makes
MaxCalls == 3

(***************************************************************************)
(* f64: representation.                                                    *)
(***************************************************************************)
RECURSIVE Pow2(_)
Pow2(n) == IF n <= 0 THEN 1 ELSE 2 * Pow2(n - 1)

RECURSIVE Pow5(_)
Pow5(n) == IF n <= 0 THEN 1 ELSE 5 * Pow5(n - 1)

\* number of significant bits of a natural number
RECURSIVE BitLen(_)
BitLen(m) == IF m = 0 THEN 0 ELSE 1 + BitLen(m \div 2)

Abs(i) == IF i < 0 THEN -i ELSE i

Sgn(i) == IF i < 0 THEN -1 ELSE 1

FZero(s) == [k |-> "fin", s |-> s, m |-> 0, e |-> 0]

FInf(s) == [k |-> "inf", s |-> s, m |-> 0, e |-> 0]

FNaN == [k |-> "nan", s |-> 1, m |-> 0, e |-> 0]

\* largest binary exponent of a finite binary64: values reach up to 2^1024
F64MaxExp == 1024

\* a finite non-zero magnitude m * 2^e, mantissa made odd; overflow gives inf
RECURSIVE FNorm(_, _, _)
FNorm(s, m, e) ==
    IF m = 0 THEN FZero(s)
    ELSE IF m % 2 = 0 THEN FNorm(s, m \div 2, e + 1)
    ELSE IF BitLen(m) + e > F64MaxExp THEN FInf(s)
    ELSE [k |-> "fin", s |-> s, m |-> m, e |-> e]

\* the f64 literal i.0
FromInt(i) == FNorm(Sgn(i), Abs(i), 0)

IsZero(x) == x.k = "fin" /\ x.m = 0

\* position of the leading bit of a finite non-zero value
TopBit(x) == BitLen(x.m) + x.e

(***************************************************************************)
(* f64: a + b and a * b, round to nearest even.                            *)
(***************************************************************************)
\* sum of two finite non-zero values, x the one with the larger exponent
FAddFinite(x, y) ==
    IF TopBit(y) <= TopBit(x) - 55
    THEN x    \* y is below a quarter ulp of x: the sum rounds back to x
    ELSE LET d == x.e - y.e
             sum == x.s * x.m * Pow2(d) + y.s * y.m
         IN  IF sum = 0 THEN FZero(1) ELSE FNorm(Sgn(sum), Abs(sum), y.e)

FAdd(x, y) ==
    IF x.k = "nan" \/ y.k = "nan" THEN FNaN
    ELSE IF x.k = "inf" /\ y.k = "inf" THEN (IF x.s = y.s THEN x ELSE FNaN)
    ELSE IF x.k = "inf" THEN x
    ELSE IF y.k = "inf" THEN y
    ELSE IF IsZero(x) /\ IsZero(y) THEN (IF x.s = y.s THEN x ELSE FZero(1))
    ELSE IF IsZero(x) THEN y
    ELSE IF IsZero(y) THEN x
    ELSE IF x.e >= y.e THEN FAddFinite(x, y) ELSE FAddFinite(y, x)

FMul(x, y) ==
    IF x.k = "nan" \/ y.k = "nan" THEN FNaN
    ELSE IF (x.k = "inf" /\ IsZero(y)) \/ (IsZero(x) /\ y.k = "inf") THEN FNaN
    ELSE IF x.k = "inf" \/ y.k = "inf" THEN FInf(x.s * y.s)
    ELSE IF IsZero(x) \/ IsZero(y) THEN FZero(x.s * y.s)
    ELSE FNorm(x.s * y.s, x.m * y.m, x.e + y.e)

(***************************************************************************)
(* f64: Display ("{}"), the shortest decimal that reads back as the value, *)
(* never in exponent notation.                                             *)
(***************************************************************************)
RECURSIVE Zeros(_)
Zeros(n) ==
    IF n <= 0 THEN ""
    ELSE LET h == Zeros(n \div 2)
         IN  h \o h \o (IF n % 2 = 1 THEN "0" ELSE "")

\* shortest round-trip digits of the powers of two near the top of the range
BigDigits(x) ==
    CASE x.m = 1 /\ x.e = 1023 -> "898846567431158" \o Zeros(293)
      [] x.m = 1 /\ x.e = 1022 -> "449423283715579" \o Zeros(293)

FmtMagnitude(x) ==
    IF x.e >= 0
    THEN IF TopBit(x) <= 30 THEN ToString(x.m * Pow2(x.e)) ELSE BigDigits(x)
    ELSE LET n == 0 - x.e
             whole == x.m \div Pow2(n)
             frac == ToString((x.m % Pow2(n)) * Pow5(n))
         IN  ToString(whole) \o "." \o Zeros(n - Len(frac)) \o frac

\* fault: the Debug form "{:?}", which keeps ".0" on whole numbers
Fmt_debug(x) ==
    CASE x.k = "nan" -> "NaN"
      [] x.k = "inf" -> (IF x.s < 0 THEN "-inf" ELSE "inf")
      [] IsZero(x) -> (IF x.s < 0 THEN "-0.0" ELSE "0.0")
      [] OTHER -> (IF x.s < 0 THEN "-" ELSE "") \o FmtMagnitude(x)
                      \o (IF x.e >= 0 THEN ".0" ELSE "")

Fmt(x) ==
    CASE x.k = "nan" -> "NaN"
      [] x.k = "inf" -> (IF x.s < 0 THEN "-inf" ELSE "inf")
      [] IsZero(x) -> (IF x.s < 0 THEN "-0" ELSE "0")
      [] OTHER -> (IF x.s < 0 THEN "-" ELSE "") \o FmtMagnitude(x)

(***************************************************************************)
(* Operands.                                                               *)
(***************************************************************************)
\* 0.5
Half == FNorm(1, 1, 0 - 1)

\* 2^1023, the largest power of two of binary64
Huge == FNorm(1, 1, 1023)

\* zero, negative, fractional and large-magnitude finite operands
Operands ==
    {FromInt(i) : i \in (0 - MaxInt)..MaxInt} \cup {Half, Huge, FMul(Huge, FromInt(0 - 1))}

\* the concrete types that implement Operation
Types == {"Add", "Mul"}

(***************************************************************************)
(* trait Operation and its implementations.                                *)
(***************************************************************************)
Add_calculate(a, b) == FAdd(a, b)

Add_name == " + "

\* fault: Mul copied from Add without changing the operator
Mul_calculate_add(a, b) == FAdd(a, b)

Mul_calculate(a, b) == FMul(a, b)

\* fault: the symbol without its padding
Mul_name_bare == "*"

Mul_name == " * "

\* op.calculate(a, b) resolved for the concrete type T of op
Operation_calculate(T, a, b) ==
    CASE T = "Add" -> [impl |-> "Add", ret |-> Add_calculate(a, b)]
      [] T = "Mul" -> [impl |-> "Mul", ret |-> Mul_calculate(a, b)]

\* fault: name always resolved to the implementation of Add
Operation_name_add(T) == [impl |-> "Add", ret |-> Add_name]

\* op.name() resolved for the concrete type T of op
Operation_name(T) ==
    CASE T = "Add" -> [impl |-> "Add", ret |-> Add_name]
      [] T = "Mul" -> [impl |-> "Mul", ret |-> Mul_name]

(***************************************************************************)
(* The format strings of the two println! calls.                          *)
(***************************************************************************)
\* fault: the operands in the wrong order
DynLine_swapped(a, sym, b, result) ==
    "Dynamic dispatch: " \o Fmt(b) \o sym \o Fmt(a) \o " = " \o Fmt(result)

DynLine(a, sym, b, result) ==
    "Dynamic dispatch: " \o Fmt(a) \o sym \o Fmt(b) \o " = " \o Fmt(result)

\* fault: the second operand left out of the static line
StatLine_short(a, sym, b, result) ==
    "Static dispatch: " \o Fmt(a) \o sym \o " = " \o Fmt(result)

StatLine(a, sym, b, result) ==
    "Static dispatch: " \o Fmt(a) \o sym \o Fmt(b) \o " = " \o Fmt(result)

(***************************************************************************)
(* State.                                                                  *)
(***************************************************************************)
VARIABLES
    caller,     \* who calls the invokers: "main", or a "client" of the two functions
    pc,         \* main: the statement to execute once the current call returned
    args,       \* client: its operand pair <<a, b>>; <<>> for main
    instances,  \* every Add{} / Mul{} value constructed so far, in order
    frame,      \* the activation of the invoker that is running, or NoFrame
    invs,       \* history: the invoker calls made so far, with their arguments
    calls,      \* history: calculate / name / write events, in order
    out,        \* standard output, a sequence of lines
    exitCode    \* -1 while the process runs, then its exit code

vars == <<caller, pc, args, instances, frame, invs, calls, out, exitCode>>

NoFrame ==
    [fn |-> "none", op |-> 0, vt |-> "-", T |-> "-", a |-> FZero(1), b |-> FZero(1),
     at |-> "-", result |-> FZero(1), sym |-> ""]

Init ==
    /\ caller \in {"main", "client"}
    /\ pc = IF caller = "main" THEN "L42" ELSE "client"
    /\ args \in IF caller = "main" THEN {<<>>} ELSE Operands \X Operands
    /\ instances = <<>>
    /\ frame = NoFrame
    /\ invs = <<>>
    /\ calls = <<>>
    /\ out = <<>>
    /\ exitCode = 0 - 1

(***************************************************************************)
(* Calling an invoker with a freshly constructed operation: the argument   *)
(* expression &T{} builds the value, the reference to it is passed either  *)
(* as &dyn Operation (data pointer and vtable of T) or as &T.              *)
(***************************************************************************)
CallInvoker(fn, T, a, b) ==
    /\ frame = NoFrame
    /\ instances' = Append(instances, [type |-> T])
    /\ frame' = [fn |-> fn, op |-> Len(instances) + 1,
                 vt |-> IF fn = "dyn" THEN T ELSE "-",
                 T |-> IF fn = "stat" THEN T ELSE "-",
                 a |-> a, b |-> b, at |-> "calc", result |-> FZero(1), sym |-> ""]
    /\ invs' = Append(invs, [fn |-> fn, op |-> Len(instances) + 1, a |-> a, b |-> b])
    /\ UNCHANGED <<calls, out>>

Event(m, impl, val, str) ==
    [inv |-> Len(invs), m |-> m, impl |-> impl, val |-> val, str |-> str]

(***************************************************************************)
(* fn do_the_math_dynamically(op: &dyn Operation, a: f64, b: f64)          *)
(***************************************************************************)
DynCalculate ==
    /\ frame.fn = "dyn" /\ frame.at = "calc"
    /\ LET r == Operation_calculate(frame.vt, frame.a, frame.b)
       IN  /\ frame' = [frame EXCEPT !.result = r.ret, !.at = "name"]
           /\ calls' = Append(calls, Event("calculate", r.impl, r.ret, ""))
    /\ UNCHANGED <<caller, pc, args, instances, invs, out, exitCode>>

DynName ==
    /\ frame.fn = "dyn" /\ frame.at = "name"
    /\ LET r == Operation_name(frame.vt)
       IN  /\ frame' = [frame EXCEPT !.sym = r.ret, !.at = "print"]
           /\ calls' = Append(calls, Event("name", r.impl, FZero(1), r.ret))
    /\ UNCHANGED <<caller, pc, args, instances, invs, out, exitCode>>

\* fault: a line counter kept across calls and printed
DynPrintln_numbered ==
    /\ frame.fn = "dyn" /\ frame.at = "print"
    /\ LET line == ToString(Len(out)) \o ": "
                       \o DynLine(frame.a, frame.sym, frame.b, frame.result)
       IN  /\ out' = Append(out, line)
           /\ calls' = Append(calls, Event("write", "-", FZero(1), line))
    /\ frame' = NoFrame
    /\ UNCHANGED <<caller, pc, args, instances, invs, exitCode>>

DynPrintln ==
    /\ frame.fn = "dyn" /\ frame.at = "print"
    /\ LET line == DynLine(frame.a, frame.sym, frame.b, frame.result)
       IN  /\ out' = Append(out, line)
           /\ calls' = Append(calls, Event("write", "-", FZero(1), line))
    /\ frame' = NoFrame
    /\ UNCHANGED <<caller, pc, args, instances, invs, exitCode>>

do_the_math_dynamically == DynCalculate \/ DynName \/ DynPrintln

(***************************************************************************)
(* fn do_the_math_statically<T: Operation>(op: &T, a: f64, b: f64)         *)
(***************************************************************************)
StatCalculate ==
    /\ frame.fn = "stat" /\ frame.at = "calc"
    /\ LET r == Operation_calculate(frame.T, frame.a, frame.b)
       IN  /\ frame' = [frame EXCEPT !.result = r.ret, !.at = "name"]
           /\ calls' = Append(calls, Event("calculate", r.impl, r.ret, ""))
    /\ UNCHANGED <<caller, pc, args, instances, invs, out, exitCode>>

StatName ==
    /\ frame.fn = "stat" /\ frame.at = "name"
    /\ LET r == Operation_name(frame.T)
       IN  /\ frame' = [frame EXCEPT !.sym = r.ret, !.at = "print"]
           /\ calls' = Append(calls, Event("name", r.impl, FZero(1), r.ret))
    /\ UNCHANGED <<caller, pc, args, instances, invs, out, exitCode>>

\* fault: the line written twice
StatPrintln_twice ==
    /\ frame.fn = "stat" /\ frame.at = "print"
    /\ LET line == StatLine(frame.a, frame.sym, frame.b, frame.result)
       IN  /\ out' = out \o <<line, line>>
           /\ calls' = Append(calls, Event("write", "-", FZero(1), line))
    /\ frame' = NoFrame
    /\ UNCHANGED <<caller, pc, args, instances, invs, exitCode>>

StatPrintln ==
    /\ frame.fn = "stat" /\ frame.at = "print"
    /\ LET line == StatLine(frame.a, frame.sym, frame.b, frame.result)
       IN  /\ out' = Append(out, line)
           /\ calls' = Append(calls, Event("write", "-", FZero(1), line))
    /\ frame' = NoFrame
    /\ UNCHANGED <<caller, pc, args, instances, invs, exitCode>>

do_the_math_statically == StatCalculate \/ StatName \/ StatPrintln

(***************************************************************************)
(* fn main()                                                               *)
(***************************************************************************)
Main42 ==
    /\ caller = "main" /\ pc = "L42"
    /\ CallInvoker("dyn", "Add", FromInt(1), FromInt(2))
    /\ pc' = "L43"
    /\ UNCHANGED <<caller, args, exitCode>>

Main43 ==
    /\ caller = "main" /\ pc = "L43"
    /\ CallInvoker("dyn", "Mul", FromInt(4), FromInt(5))
    /\ pc' = "L45"
    /\ UNCHANGED <<caller, args, exitCode>>

\* fault: the Add built for line 42 kept and passed again
Main45_reuse ==
    /\ caller = "main" /\ pc = "L45" /\ frame = NoFrame
    /\ frame' = [fn |-> "stat", op |-> 1, vt |-> "-", T |-> "Add",
                 a |-> FromInt(1), b |-> FromInt(2), at |-> "calc",
                 result |-> FZero(1), sym |-> ""]
    /\ invs' = Append(invs, [fn |-> "stat", op |-> 1, a |-> FromInt(1), b |-> FromInt(2)])
    /\ pc' = "L46"
    /\ UNCHANGED <<caller, args, instances, calls, out, exitCode>>

Main45 ==
    /\ caller = "main" /\ pc = "L45"
    /\ CallInvoker("stat", "Add", FromInt(1), FromInt(2))
    /\ pc' = "L46"
    /\ UNCHANGED <<caller, args, exitCode>>

\* fault: the fourth invocation left out
Main46_skip ==
    /\ caller = "main" /\ pc = "L46" /\ frame = NoFrame
    /\ pc' = "L47"
    /\ UNCHANGED <<caller, args, instances, frame, invs, calls, out, exitCode>>

Main46 ==
    /\ caller = "main" /\ pc = "L46"
    /\ CallInvoker("stat", "Mul", FromInt(4), FromInt(5))
    /\ pc' = "L47"
    /\ UNCHANGED <<caller, args, exitCode>>

\* main returns (): the process exits with code 0
MainReturn ==
    /\ caller = "main" /\ pc = "L47" /\ frame = NoFrame
    /\ pc' = "done"
    /\ exitCode' = 0
    /\ UNCHANGED <<caller, args, instances, frame, invs, calls, out>>

main == Main42 \/ Main43 \/ Main45 \/ Main46 \/ MainReturn

(***************************************************************************)
(* Any other caller of the two invokers: each call picks an invoker and an *)
(* operation type and passes the client's operand pair.                    *)
(***************************************************************************)
ClientCall ==
    /\ caller = "client" /\ Len(invs) < MaxCalls
    /\ \E fn \in {"dyn", "stat"}, T \in Types : CallInvoker(fn, T, args[1], args[2])
    /\ UNCHANGED <<caller, pc, args, exitCode>>

Next == main \/ ClientCall \/ do_the_math_dynamically \/ do_the_math_statically

Spec == Init /\ [][Next]_vars

\* the process is single-threaded and runs to completion: a step that can be
\* taken is taken.  The client's operand pairs are restricted to a few here.
LiveInit == Init /\ (caller = "client" => args \in {<<Half, FromInt(i)>> : i \in 0..MaxInt})

LiveSpec == LiveInit /\ [][Next]_vars /\ WF_vars(Next)

(***************************************************************************)
(* Reading the history.                                                    *)
(***************************************************************************)
\* the concrete type of the operation passed to the k-th invoker call
TypeOf(k) == instances[invs[k].op].type

\* the events of the k-th invoker call, in order
EventsOf(k) == SelectSeq(calls, LAMBDA ev : ev.inv = k)

\* the k-th invoker call has returned; calls are sequential, so its line is out[k]
Returned(k) == k \in 1..Len(invs) /\ (k < Len(invs) \/ frame = NoFrame)

SameCall(i, j) ==
    /\ invs[i].fn = invs[j].fn /\ TypeOf(i) = TypeOf(j)
    /\ invs[i].a = invs[j].a /\ invs[i].b = invs[j].b

SameInput(i, j) ==
    TypeOf(i) = TypeOf(j) /\ invs[i].a = invs[j].a /\ invs[i].b = invs[j].b

IsPrefix(s, t) == Len(s) <= Len(t) /\ s = SubSeq(t, 1, Len(s))

(***************************************************************************)
(* C1.  main emits exactly the four lines below, in this order: at every   *)
(* moment standard output is a prefix of them, the k-th call is the k-th   *)
(* invocation listed, and at exit all four lines are there.                *)
(***************************************************************************)
MainLines ==
    << "Dynamic dispatch: 1 + 2 = 3",
       "Dynamic dispatch: 4 * 5 = 20",
       "Static dispatch: 1 + 2 = 3",
       "Static dispatch: 4 * 5 = 20" >>

MainInvocations ==
    << [fn |-> "dyn", type |-> "Add", a |-> FromInt(1), b |-> FromInt(2)],
       [fn |-> "dyn", type |-> "Mul", a |-> FromInt(4), b |-> FromInt(5)],
       [fn |-> "stat", type |-> "Add", a |-> FromInt(1), b |-> FromInt(2)],
       [fn |-> "stat", type |-> "Mul", a |-> FromInt(4), b |-> FromInt(5)] >>

C1_MainOutput ==
    caller = "main" =>
        /\ IsPrefix(out, MainLines)
        /\ Len(invs) <= 4
        /\ \A k \in 1..Len(invs) :
               [fn |-> invs[k].fn, type |-> TypeOf(k), a |-> invs[k].a, b |-> invs[k].b]
                   = MainInvocations[k]
        /\ Len(invs) - 1 <= Len(out) /\ Len(out) <= Len(invs)
        /\ (pc = "done" => out = MainLines)

C1_Witness == caller = "main" /\ pc = "done" /\ Len(out) = 4

(***************************************************************************)
(* C2.  A dynamic and a static call with the same operation type and the   *)
(* same operands get the same value from calculate and the same symbol     *)
(* from name, and their lines are the same text behind the two prefixes.   *)
(***************************************************************************)
C2_SameBehindPrefix ==
    \A i, j \in 1..Len(invs) :
        (/\ Returned(i) /\ Returned(j)
         /\ invs[i].fn = "dyn" /\ invs[j].fn = "stat" /\ SameInput(i, j)) =>
            LET ei == EventsOf(i)
                ej == EventsOf(j)
                body == Fmt(invs[i].a) \o ei[2].str \o Fmt(invs[i].b)
                            \o " = " \o Fmt(ei[1].val)
            IN  /\ ei[1].val = ej[1].val
                /\ ei[2].str = ej[2].str
                /\ out[i] = "Dynamic dispatch: " \o body
                /\ out[j] = "Static dispatch: " \o body

C2_Witness ==
    \E i, j \in 1..Len(invs) :
        /\ Returned(i) /\ Returned(j)
        /\ invs[i].fn = "dyn" /\ invs[j].fn = "stat" /\ SameInput(i, j)
        /\ TypeOf(i) = "Mul" /\ invs[i].a = Half /\ invs[i].b = FromInt(0 - 1)

(***************************************************************************)
(* C3.  Every value calculate returns is the f64 sum of the operands for   *)
(* Add and the f64 product for Mul, for all operands of the set (zero,     *)
(* negative, fractional, 2^1023), and calculate always returns: an invoker *)
(* waiting for it can always take the step.                                *)
(***************************************************************************)
C3_MatchesArithmetic ==
    /\ \A i \in 1..Len(calls) :
           calls[i].m = "calculate" =>
               LET k == calls[i].inv
               IN  /\ TypeOf(k) = "Add" => calls[i].val = FAdd(invs[k].a, invs[k].b)
                   /\ TypeOf(k) = "Mul" => calls[i].val = FMul(invs[k].a, invs[k].b)
                   /\ calls[i].val.k \in {"fin", "inf", "nan"}
    /\ frame.at = "calc" => ENABLED (DynCalculate \/ StatCalculate)
    /\ frame.at = "name" => frame.result = calls[Len(calls)].val

C3_Witness ==
    /\ \E i \in 1..Len(calls) :
           /\ calls[i].m = "calculate" /\ TypeOf(calls[i].inv) = "Mul"
           /\ invs[calls[i].inv].a = Huge /\ invs[calls[i].inv].b = FromInt(0 - MaxInt)
           /\ calls[i].val = FInf(0 - 1)
    /\ \E i \in 1..Len(calls) :
           /\ calls[i].m = "calculate" /\ TypeOf(calls[i].inv) = "Add"
           /\ invs[calls[i].inv].a = Huge /\ calls[i].val = Huge

(***************************************************************************)
(* C4.  Every call of name, whatever was called before it, returns " + "   *)
(* for an Add and " * " for a Mul: three characters, fixed by the type.    *)
(***************************************************************************)
C4_SymbolStable ==
    /\ \A i \in 1..Len(calls) :
           calls[i].m = "name" =>
               /\ TypeOf(calls[i].inv) = "Add" => calls[i].str = " + "
               /\ TypeOf(calls[i].inv) = "Mul" => calls[i].str = " * "
               /\ Len(calls[i].str) = 3
    /\ frame.at = "print" => frame.sym = calls[Len(calls)].str

C4_Witness ==
    \E i, j \in 1..Len(calls) :
        /\ i + 3 < j /\ calls[i].m = "name" /\ calls[j].m = "name"
        /\ TypeOf(calls[i].inv) = "Mul" /\ TypeOf(calls[j].inv) = "Mul"
        /\ invs[calls[i].inv].fn # invs[calls[j].inv].fn

(***************************************************************************)
(* C5.  Two calls of the same invoker with the same operation type and the *)
(* same operands write the same line, whatever was called in between.      *)
(***************************************************************************)
C5_Idempotent ==
    \A i, j \in 1..Len(invs) :
        (Returned(i) /\ Returned(j) /\ SameCall(i, j)) => out[i] = out[j]

C5_Witness ==
    \E i, j \in 1..Len(invs) :
        /\ Returned(i) /\ Returned(j) /\ i + 1 < j /\ SameCall(i, j)
        /\ ~SameCall(i, i + 1)
        /\ invs[i].a # invs[i].b

(***************************************************************************)
(* C6.  While an invoker runs, every step leaves the operands, the         *)
(* operation instances and the caller's state as they are; the steps       *)
(* before the write leave standard output alone, and the last step appends *)
(* exactly one line to it and returns.  So standard output always holds    *)
(* one line per returned call.                                             *)
(***************************************************************************)
InvokerStepEffect ==
    /\ instances' = instances /\ args' = args /\ invs' = invs
    /\ caller' = caller /\ pc' = pc /\ exitCode' = exitCode
    /\ IF frame.at = "print"
       THEN /\ Len(out') = Len(out) + 1 /\ SubSeq(out', 1, Len(out)) = out
            /\ frame' = NoFrame
       ELSE /\ out' = out
            /\ frame'.fn = frame.fn /\ frame'.op = frame.op
            /\ frame'.a = frame.a /\ frame'.b = frame.b
            /\ frame'.a = invs[Len(invs)].a /\ frame'.b = invs[Len(invs)].b

OneLinePerCall == Len(out) = Len(invs) - (IF frame = NoFrame THEN 0 ELSE 1)

C6_FrameEffect == [](OneLinePerCall) /\ [][frame # NoFrame => InvokerStepEffect]_vars

C6_Witness ==
    /\ caller = "client" /\ frame = NoFrame /\ Len(out) = 2
    /\ invs[1].fn = "dyn" /\ invs[2].fn = "stat"

(***************************************************************************)
(* C7.  Statement of the claim: main builds two operation instances, one   *)
(* per type, and the static invoker receives the instance the dynamic      *)
(* invoker received for that type.                                         *)
(***************************************************************************)
C7_TwoSharedInstances ==
    caller = "main" =>
        /\ Len(instances) <= 2
        /\ \A i, j \in 1..Len(invs) : TypeOf(i) = TypeOf(j) => invs[i].op = invs[j].op

(***************************************************************************)
(* C7, amended.  main builds one operation instance per invocation, four   *)
(* in total (Add, Mul, Add, Mul): the k-th call receives the k-th          *)
(* instance, no instance is passed to two calls, and no instance is built  *)
(* apart from these.                                                       *)
(***************************************************************************)
C7_FreshInstancePerCall ==
    caller = "main" =>
        /\ IsPrefix(instances, << [type |-> "Add"], [type |-> "Mul"],
                                  [type |-> "Add"], [type |-> "Mul"] >>)
        /\ Len(instances) = Len(invs)
        /\ \A k \in 1..Len(invs) : invs[k].op = k
        /\ (pc = "done" => Len(instances) = 4)

C7_Witness == caller = "main" /\ pc = "done" /\ Len(instances) = 4 /\ invs[3].op = 3

(***************************************************************************)
(* C8.  main always runs to completion: it reaches exit code 0 with all    *)
(* four invocations returned and four lines written, the exit code is set  *)
(* only then, and no invocation is pending, skipped or repeated at exit.   *)
(***************************************************************************)
MainCompleted ==
    /\ pc = "done" /\ exitCode = 0 /\ frame = NoFrame
    /\ Len(invs) = 4 /\ Len(out) = 4 /\ Len(calls) = 12

PrefixOf(fn) == IF fn = "dyn" THEN "Dynamic dispatch: " ELSE "Static dispatch: "

C9_LineShape ==
    \A k \in 1..Len(invs) :
        Returned(k) =>
            \E c, n \in 1..Len(calls) :
                /\ calls[c].inv = k /\ calls[c].m = "calculate"
                /\ calls[c].val = Operation_calculate(TypeOf(k), invs[k].a, invs[k].b).ret
                /\ calls[n].inv = k /\ calls[n].m = "name"
                /\ calls[n].str = Operation_name(TypeOf(k)).ret
                /\ out[k] = PrefixOf(invs[k].fn) \o Fmt(invs[k].a) \o calls[n].str
                                \o Fmt(invs[k].b) \o " = " \o Fmt(calls[c].val)

C9_Witness ==
    \E k \in 1..Len(invs) :
        /\ Returned(k) /\ invs[k].fn = "stat" /\ TypeOf(k) = "Add"
        /\ invs[k].a = Half /\ invs[k].b = FromInt(1)
        /\ out[k] = "Static dispatch: 0.5 + 1 = 1.5"

(***************************************************************************)
(* C10.  The events of every invoker call are calculate, then name, then   *)
(* the write, once each and in this order, and calculate and name run the  *)
(* implementation of the type of the operation that was passed.            *)
(***************************************************************************)
EventOrder == <<"calculate", "name", "write">>

C10_CallOrder ==
    /\ \A k \in 1..Len(invs) :
           LET ev == EventsOf(k)
           IN  /\ Len(ev) <= 3
               /\ \A i \in 1..Len(ev) : ev[i].m = EventOrder[i]
               /\ \A i \in 1..Len(ev) : i <= 2 => ev[i].impl = TypeOf(k)
               /\ Returned(k) => Len(ev) = 3
    /\ \A i \in 1..Len(calls) : calls[i].inv \in 1..Len(invs)
    /\ \A i, j \in 1..Len(calls) : i < j => calls[i].inv <= calls[j].inv

C10_Witness ==
    \E i, j \in 1..Len(invs) :
        /\ Returned(i) /\ Returned(j)
        /\ invs[i].fn = "dyn" /\ invs[j].fn = "stat"
        /\ TypeOf(i) = "Mul" /\ TypeOf(j) = "Mul" /\ Len(calls) >= 6

====
